---- MODULE Spec2Model ----
(***************************************************************************)
(* Connection lifecycle manager of MGAWhatsApp (src/src/sessions/manager.js *)
(* class SessionManager) with the HTTP entry of src/src/routes/             *)
(* channels.routes.js that creates a channel.                               *)
(*                                                                          *)
(* Every asynchronous call of the manager is a slot of `calls`; its pc is   *)
(* the await the call is suspended at.  One action runs a call from the     *)
(* event that wakes it to its next await that waits for a timer, for I/O or *)
(* for the provider; a continuation that is separated from the step before  *)
(* it only by a promise job (the return of an awaited call, the settling of *)
(* the QR promise) runs in the same action, as promise jobs run before any  *)
(* timer or I/O callback.  Durations are not modelled: timers and I/O       *)
(* complete in any order.                                                   *)
(*                                                                          *)
(* The protocol client (Baileys), the QR encoder and the file system are    *)
(* the environment: a live handle may emit any connection update, end() and *)
(* logout() may succeed or throw, encoding and credential loading may fail. *)
(* The field lastSeen (wall clock) is not modelled.                         *)
(***************************************************************************)
EXTENDS Integers, Sequences, FiniteSets

\* ------------------------------------------------------------------ bounds
MaxCalls == 2       \* calls of the manager (API calls and fired timers) in one run
MaxHandles == 2     \* handles makeWASocket opens in one run
MaxTimers == 2      \* reconnect timers pending per channel id
MaxEncodes == 1     \* QR encodings in flight per channel id
OtherCalls == MaxCalls - 1      \* calls of the second channel id of a run with two
OtherEncodes == MaxEncodes - 1  \* QR encodings in flight of the second channel id

\* ------------------------------------------------------- program constants
MaxReconnectAttempts == 5
BaseDelayMs == 3000
MaxDelayMs == 60000

Ids == {"acme", "beta"}          \* channel ids the state is keyed by
NoHandle == 0                    \* sessions.get(id) === undefined
NoSlot == 0                      \* qrPromises.get(id) === undefined

Undefined == "undefined"         \* a field the record does not have
Null == "null"
Image == "data:image/png;base64" \* what QRCode.toDataURL resolves to
NoAttempts == -1                 \* reconnectAttempts undefined

Statuses == {"CREATED", "CONNECTING", "QRCODE", "CONNECTED", "RECONNECTING",
             "LOGGED_OUT", "FAILED", "RESTORING"}

\* channels.get(id) === undefined
NoChannel == [status |-> "absent", qrCode |-> Undefined, reconnectAttempts |-> NoAttempts]

\* {...channel}: the fields of the record, none when it is undefined
Spread(channel) ==
    IF channel = NoChannel
    THEN [status |-> Undefined, qrCode |-> Undefined, reconnectAttempts |-> NoAttempts]
    ELSE channel

NoResult == [outcome |-> "none", status |-> Undefined, qrCode |-> Undefined]
\* a call as it starts: op is the method, pc the await it is suspended at, qrp the
\* state of the QR promise a createChannel call makes, socket the handle a
\* closeChannel call awaits the logout of
NewCall(op, id, forceNew) ==
    [op |-> op, id |-> id, pc |-> "start", forceNew |-> forceNew, qrp |-> "none",
     socket |-> NoHandle, result |-> NoResult]

VARIABLES
    channels,            \* this.channels: id -> record or NoChannel
    sessions,            \* this.sessions: id -> handle or NoHandle
    qrPromises,          \* this.qrPromises: id -> slot of the create that owns the promise
    connectingChannels,  \* this.connectingChannels
    handles,             \* sockets opened so far: <<[id, live]>>
    timers,              \* pending setTimeout reconnects: id -> <<delay>>
    encodes,             \* QRCode.toDataURL calls in flight: id -> count
    store,               \* src/channels/<id>: "none", "dir" (no auth_info) or "auth"
    calls,               \* the calls made so far: <<call record>>
    limits               \* the bounds of this run (never changes)

vars == <<channels, sessions, qrPromises, connectingChannels, handles, timers,
          encodes, store, calls, limits>>

World == [channels |-> channels, sessions |-> sessions, qrPromises |-> qrPromises,
          connectingChannels |-> connectingChannels, handles |-> handles,
          timers |-> timers, encodes |-> encodes, store |-> store, calls |-> calls]

Becomes(w) ==
    /\ channels' = w.channels
    /\ sessions' = w.sessions
    /\ qrPromises' = w.qrPromises
    /\ connectingChannels' = w.connectingChannels
    /\ handles' = w.handles
    /\ timers' = w.timers
    /\ encodes' = w.encodes
    /\ store' = w.store
    /\ calls' = w.calls
    /\ UNCHANGED limits

Min(a, b) == IF a <= b THEN a ELSE b

RECURSIVE Pow2(_)
Pow2(n) == IF n <= 0 THEN 1 ELSE 2 * Pow2(n - 1)

\* a delay that grows by 3000 ms per attempt instead of doubling
DelayLinear(attempts) == Min(BaseDelayMs * attempts, MaxDelayMs)

\* Math.min(3000 * Math.pow(2, attempts - 1), 60000)
Delay(attempts) == Min(BaseDelayMs * Pow2(attempts - 1), MaxDelayMs)

RemoveAt(s, k) == [i \in 1..(Len(s) - 1) |-> IF i < k THEN s[i] ELSE s[i + 1]]

\* ------------------------------------------------------- status queries
getChannelStatus(w, id) == w.channels[id]
getSocket(w, id) == w.sessions[id]
isChannelConnected(w, id) == w.channels[id].status = "CONNECTED"

\* ------------------------------------------------- connection updates
\* the limit compared with < instead of <=: the fifth close gives up
closeReconnectOffByOne(w, id) ==
    LET channel == w.channels[id]
        attempts == (IF channel.reconnectAttempts > 0 THEN channel.reconnectAttempts ELSE 0) + 1
    IN IF attempts < MaxReconnectAttempts
       THEN [w EXCEPT !.channels[id] = [Spread(channel) EXCEPT !.status = "RECONNECTING",
                                                              !.reconnectAttempts = attempts],
                      !.timers[id] = Append(@, Delay(attempts))]
       ELSE [w EXCEPT !.channels[id] = [Spread(channel) EXCEPT !.status = "FAILED",
                                                              !.reconnectAttempts = 0]]

\* no limit: every close counts and marks the channel RECONNECTING
closeReconnectUnlimited(w, id) ==
    LET channel == w.channels[id]
        attempts == (IF channel.reconnectAttempts > 0 THEN channel.reconnectAttempts ELSE 0) + 1
    IN [w EXCEPT !.channels[id] = [Spread(channel) EXCEPT !.status = "RECONNECTING",
                                                         !.reconnectAttempts = attempts],
                 !.timers[id] = Append(@, Delay(attempts))]

\* connection === 'close', statusCode !== DisconnectReason.loggedOut
closeReconnect(w, id) ==
    LET channel == w.channels[id]
        attempts == (IF channel.reconnectAttempts > 0 THEN channel.reconnectAttempts ELSE 0) + 1
    IN IF attempts <= MaxReconnectAttempts
       THEN [w EXCEPT !.channels[id] = [Spread(channel) EXCEPT !.status = "RECONNECTING",
                                                              !.reconnectAttempts = attempts],
                      !.timers[id] = Append(@, Delay(attempts))]
       ELSE [w EXCEPT !.channels[id] = [Spread(channel) EXCEPT !.status = "FAILED",
                                                              !.reconnectAttempts = 0]]

\* the logout close that leaves the Session in the store
closeLoggedOutKeepsSession(w, id) ==
    [w EXCEPT !.channels[id] = [Spread(w.channels[id]) EXCEPT !.status = "LOGGED_OUT"]]

\* connection === 'close', statusCode === DisconnectReason.loggedOut
closeLoggedOut(w, id) ==
    [w EXCEPT !.channels[id] = [Spread(w.channels[id]) EXCEPT !.status = "LOGGED_OUT"],
              !.sessions[id] = NoHandle]

\* the open that leaves the attempt count as it is
connectionOpenKeepsAttempts(w, id) ==
    [w EXCEPT !.channels[id] = [Spread(w.channels[id]) EXCEPT !.status = "CONNECTED",
                                                            !.qrCode = Null]]

connectionOpen(w, id) ==
    [w EXCEPT !.channels[id] = [Spread(w.channels[id]) EXCEPT !.status = "CONNECTED",
                                                            !.qrCode = Null,
                                                            !.reconnectAttempts = 0]]

connectionConnecting(w, id) ==
    [w EXCEPT !.channels[id] = [Spread(w.channels[id]) EXCEPT !.status = "CONNECTING"]]

\* handleConnectionUpdate for an update without qr (no await is reached)
handleConnectionUpdate(w, id, connection, statusCode) ==
    CASE connection = "close" /\ statusCode # "loggedOut" -> closeReconnect(w, id)
      [] connection = "close" /\ statusCode = "loggedOut" -> closeLoggedOut(w, id)
      [] connection = "open" -> connectionOpen(w, id)
      [] connection = "connecting" -> connectionConnecting(w, id)
      [] OTHER -> w

\* socket.end() of the provider: a closed socket ignores it; otherwise the socket
\* is closed and, when the provider reports it (emit), its listener handles
\* {connection: 'close'} with no status code before end() returns.
socketEnd(w, h, emit) ==
    IF ~w.handles[h].live
    THEN w
    ELSE LET w1 == [w EXCEPT !.handles[h].live = FALSE]
         IN IF emit THEN handleConnectionUpdate(w1, w.handles[h].id, "close", Undefined)
            ELSE w1

\* a close that is no logout schedules a reconnect while attempts <= 5
SchedulesTimer(w, id) ==
    LET n == w.channels[id].reconnectAttempts
    IN (IF n > 0 THEN n ELSE 0) + 1 <= MaxReconnectAttempts

\* the pending timers of the id stay within the bound when a close is handled
TimerFits(w, id) == SchedulesTimer(w, id) => Len(w.timers[id]) < limits.timers

\* the same for the close that socketEnd(w, h, emit) reports
EndFits(w, h, emit) ==
    (h # NoHandle /\ emit) => (w.handles[h].live => TimerFits(w, w.handles[h].id))

\* ------------------------------------------------------ the end of a call
Return(w, c, outcome, status, qrCode) ==
    [w EXCEPT !.calls[c].pc = "done",
              !.calls[c].result = [outcome |-> outcome, status |-> status, qrCode |-> qrCode]]

\* this.channels.get(channelId)?.status and ?.qrCode
StatusOf(channel) == IF channel = NoChannel THEN Undefined ELSE channel.status
QrCodeOf(channel) == IF channel = NoChannel THEN Undefined ELSE channel.qrCode

\* the end of the wait without the `finally` of line 84
createAfterWaitKeeps(w, c) ==
    LET channel == w.channels[w.calls[c].id]
    IN IF channel = NoChannel
       THEN Return(w, c, "TypeError", Undefined, Undefined)
       ELSE Return(w, c, "ok", channel.status, channel.qrCode)

\* createChannel, lines 82-97: the race is over (QR, rejection or timeout); the wait
\* entry of the id is deleted and the recorded status is read without `?.`
createAfterWait(w, c) ==
    LET id == w.calls[c].id
        w1 == [w EXCEPT !.qrPromises[id] = NoSlot]
        channel == w1.channels[id]
    IN IF channel = NoChannel
       THEN Return(w1, c, "TypeError", Undefined, Undefined)
       ELSE Return(w1, c, "ok", channel.status, channel.qrCode)

\* createChannel, lines 74-81: a promise that is settled already ends the race at once
createAwaitQr(w, c) ==
    IF w.calls[c].qrp = "pending"
    THEN [w EXCEPT !.calls[c].pc = "wait_qr"]
    ELSE createAfterWait(w, c)

\* what the caller of initializeSession does when it returns (ok) or throws
afterInitialize(w, c, ok) ==
    LET id == w.calls[c].id
        op == w.calls[c].op
    IN CASE op = "create" /\ ok -> createAwaitQr(w, c)
         [] op = "create" /\ ~ok ->
                Return([w EXCEPT !.qrPromises[id] = NoSlot], c, "InitError", Undefined, Undefined)
         [] op = "regenerate" /\ ok ->
                Return(w, c, "ok", StatusOf(w.channels[id]), QrCodeOf(w.channels[id]))
         [] op = "restore" /\ ok -> Return(w, c, "ok", StatusOf(w.channels[id]), Undefined)
         [] op = "timer" /\ ok -> Return(w, c, "ok", Undefined, Undefined)
         [] OTHER -> Return(w, c, "InitError", Undefined, Undefined)

\* ------------------------------------------------------ initializeSession
\* the retirement that empties the whole Session store instead of one entry
initRetiredClearsAll(w, c) ==
    LET id == w.calls[c].id
        w1 == [w EXCEPT !.sessions = [i \in Ids |-> NoHandle]]
    IN IF w.calls[c].forceNew /\ w.store[id] = "auth"
       THEN [w1 EXCEPT !.store[id] = "dir", !.calls[c].pc = "init_rm"]
       ELSE [w1 EXCEPT !.calls[c].pc = "init_load"]

\* the attempt that removes auth_info whether forceNew is set or not
initRetiredAlwaysDiscards(w, c) ==
    LET id == w.calls[c].id
        w1 == [w EXCEPT !.sessions[id] = NoHandle]
    IN IF w.store[id] = "auth"
       THEN [w1 EXCEPT !.store[id] = "dir", !.calls[c].pc = "init_rm"]
       ELSE [w1 EXCEPT !.calls[c].pc = "init_load"]

\* lines 122-132: forget the session; forceNew removes auth_info and waits 500 ms
initRetired(w, c) ==
    LET id == w.calls[c].id
        w1 == [w EXCEPT !.sessions[id] = NoHandle]
    IN IF w.calls[c].forceNew /\ w.store[id] = "auth"
       THEN [w1 EXCEPT !.store[id] = "dir", !.calls[c].pc = "init_rm"]
       ELSE [w1 EXCEPT !.calls[c].pc = "init_load"]

\* the guard of the mid-start set; the `finally` of line 188 runs on the early return too
initGuarded(w, c) ==
    afterInitialize([w EXCEPT !.connectingChannels = @ \ {w.calls[c].id}], c, TRUE)

\* lines 104-121, up to the first await
initializeSession(w, c, emit) ==
    LET id == w.calls[c].id
        existingSession == w.sessions[id]
        w1 == [w EXCEPT !.connectingChannels = @ \cup {id}]
    IN IF id \in w.connectingChannels
       THEN initGuarded(w, c)
       ELSE IF existingSession # NoHandle
            THEN [socketEnd(w1, existingSession, emit) EXCEPT !.calls[c].pc = "init_end"]
            ELSE initRetired(w1, c)

\* the attempt without the `finally` of line 187: a failure keeps the guard
initOpenedKeepsGuard(w, c, ok) ==
    LET id == w.calls[c].id
        h == Len(w.handles) + 1
        released == [w EXCEPT !.connectingChannels = @ \ {id}]
    IN IF ok
       THEN afterInitialize([released EXCEPT !.handles = Append(@, [id |-> id, live |-> TRUE]),
                                             !.sessions[id] = h], c, TRUE)
       ELSE afterInitialize(w, c, FALSE)

\* lines 135-141: useMultiFileAuthState resolved (auth_info exists from now on)
\* and the call awaits fetchLatestBaileysVersion; or it threw, and the guard is
\* released
initAuthLoaded(w, c, ok) ==
    LET id == w.calls[c].id
    IN IF ok
       THEN [w EXCEPT !.store[id] = "auth", !.calls[c].pc = "init_version"]
       ELSE afterInitialize([w EXCEPT !.connectingChannels = @ \ {id}], c, FALSE)

\* lines 141-189: the version is fetched, the socket is opened, subscribed and
\* installed, the guard is released; or fetchLatestBaileysVersion or makeWASocket
\* throws and the guard is released
initOpened(w, c, ok) ==
    LET id == w.calls[c].id
        h == Len(w.handles) + 1
        released == [w EXCEPT !.connectingChannels = @ \ {id}]
    IN IF ok
       THEN afterInitialize([released EXCEPT !.handles = Append(@, [id |-> id, live |-> TRUE]),
                                             !.sessions[id] = h], c, TRUE)
       ELSE afterInitialize(released, c, FALSE)

\* ------------------------------------------------------------ the methods
\* createChannel without the check of line 45
createChannelUnchecked(w, c, emit) ==
    LET id == w.calls[c].id
    IN initializeSession(
           [w EXCEPT !.store[id] = IF @ = "none" THEN "dir" ELSE @,
                     !.channels[id] = [status |-> "CREATED", qrCode |-> Null,
                                       reconnectAttempts |-> NoAttempts],
                     !.qrPromises[id] = c,
                     !.calls[c].qrp = "pending"], c, emit)

createChannel(w, c, emit) ==
    LET id == w.calls[c].id
    IN IF w.channels[id] # NoChannel
       THEN Return([w EXCEPT !.qrPromises[id] = NoSlot], c, "AlreadyExists", Undefined, Undefined)
       ELSE initializeSession(
                [w EXCEPT !.store[id] = IF @ = "none" THEN "dir" ELSE @,
                          !.channels[id] = [status |-> "CREATED", qrCode |-> Null,
                                            reconnectAttempts |-> NoAttempts],
                          !.qrPromises[id] = c,
                          !.calls[c].qrp = "pending"], c, emit)

\* regenerateQRCode, lines 360-370, up to the first await
regenerateQRCode(w, c, emit) ==
    LET id == w.calls[c].id
        session == w.sessions[id]
    IN IF session # NoHandle
       THEN [socketEnd(w, session, emit) EXCEPT !.calls[c].pc = "regen_end"]
       ELSE [w EXCEPT !.sessions[id] = NoHandle, !.calls[c].pc = "regen_settle"]

\* restoreSession without the check of line 411
restoreSessionAlways(w, c, emit) ==
    LET id == w.calls[c].id
    IN IF w.store[id] = "none"
       THEN Return(w, c, "NotFound", Undefined, Undefined)
       ELSE initializeSession(
                [w EXCEPT !.channels[id] = [status |-> "RESTORING", qrCode |-> Null,
                                            reconnectAttempts |-> NoAttempts]], c, emit)

\* restoreSession that registers the channel before it looks for the directory
restoreSessionRegistersFirst(w, c, emit) ==
    LET id == w.calls[c].id
        w1 == [w EXCEPT !.channels[id] = [status |-> "RESTORING", qrCode |-> Null,
                                          reconnectAttempts |-> NoAttempts]]
    IN IF w.channels[id] # NoChannel /\ isChannelConnected(w, id)
       THEN Return(w, c, "ok", Undefined, Undefined)
       ELSE IF w.store[id] = "none"
            THEN Return(w1, c, "NotFound", Undefined, Undefined)
            ELSE initializeSession(w1, c, emit)

restoreSession(w, c, emit) ==
    LET id == w.calls[c].id
    IN IF w.channels[id] # NoChannel /\ isChannelConnected(w, id)
       THEN Return(w, c, "ok", Undefined, Undefined)
       ELSE IF w.store[id] = "none"
            THEN Return(w, c, "NotFound", Undefined, Undefined)
            ELSE initializeSession(
                     [w EXCEPT !.channels[id] = [status |-> "RESTORING", qrCode |-> Null,
                                                 reconnectAttempts |-> NoAttempts]], c, emit)

\* closeChannel, lines 341-347, up to the await of logout()
closeChannel(w, c) ==
    LET id == w.calls[c].id
    IN IF w.sessions[id] # NoHandle
       THEN [w EXCEPT !.calls[c].pc = "logout", !.calls[c].socket = w.sessions[id]]
       ELSE Return([w EXCEPT !.sessions[id] = NoHandle, !.channels[id] = NoChannel],
                   c, "ok", Undefined, Undefined)

\* closeChannel without its catch: the failure of logout() reaches the caller
closeLoggedOutOfRethrows(w, c, ok) ==
    LET id == w.calls[c].id
        h == w.calls[c].socket
    IN IF ok
       THEN Return([w EXCEPT !.handles[h].live = FALSE,
                             !.sessions[id] = NoHandle,
                             !.channels[id] = NoChannel], c, "ok", Undefined, Undefined)
       ELSE Return(w, c, "LogoutError", Undefined, Undefined)

\* lines 343-350: logout() resolved (the socket is closed, both entries are deleted)
\* or threw (the catch logs, nothing is deleted)
closeLoggedOutOf(w, c, ok) ==
    LET id == w.calls[c].id
        h == w.calls[c].socket
    IN IF ok
       THEN Return([w EXCEPT !.handles[h].live = FALSE,
                             !.sessions[id] = NoHandle,
                             !.channels[id] = NoChannel], c, "ok", Undefined, Undefined)
       ELSE Return(w, c, "ok", Undefined, Undefined)

\* the promise of the wait entry is never settled
settleQrForgotten(w, id, how) == w

\* handleQRCode, lines 273-294, after the await of QRCode.toDataURL
settleQr(w, id, how) ==
    LET c == w.qrPromises[id]
    IN IF c = NoSlot THEN w
       ELSE IF w.calls[c].qrp # "pending" THEN w
       ELSE LET w1 == [w EXCEPT !.calls[c].qrp = how]
            IN IF w1.calls[c].pc = "wait_qr" THEN createAfterWait(w1, c) ELSE w1

\* handleQRCode that sets the status and leaves the image out
handleQRCodeNoImage(w, id, ok) ==
    IF ok
    THEN settleQr([w EXCEPT !.channels[id] = [Spread(w.channels[id]) EXCEPT
                                                 !.status = "QRCODE"]],
                  id, "resolved")
    ELSE settleQr(w, id, "rejected")

handleQRCode(w, id, ok) ==
    IF ok
    THEN settleQr([w EXCEPT !.channels[id] = [Spread(w.channels[id]) EXCEPT
                                                 !.status = "QRCODE", !.qrCode = Image]],
                  id, "resolved")
    ELSE settleQr(w, id, "rejected")

\* ------------------------------------------------------------ the queries
NoWs == -1                       \* socket.ws is undefined
WsOpen == 1                      \* readyState of an open WebSocket
ReadyStates == 0..3              \* CONNECTING, OPEN, CLOSING, CLOSED

\* what socket.ws.readyState can be when testConnection reads it: a socket that
\* has reported its close is closing or closed
WsStates(w, h) ==
    IF h = NoHandle THEN {NoWs}
    ELSE IF w.handles[h].live THEN {NoWs} \cup ReadyStates
    ELSE {2, 3}

\* getAllChannels: one entry {channelId, ...data} per registered channel
getAllChannels(w) ==
    {[channelId |-> id, data |-> w.channels[id]] : id \in {i \in Ids : w.channels[i] # NoChannel}}

\* getChannelStatus that registers an empty record for an id it does not know
getChannelStatusRegisters(w, c) ==
    LET id == w.calls[c].id
    IN IF w.channels[id] = NoChannel
       THEN Return([w EXCEPT !.channels[id] = Spread(NoChannel)], c, "null", Undefined, Undefined)
       ELSE Return(w, c, "ok", w.channels[id].status, w.channels[id].qrCode)

\* a call of getChannelStatus: null, or the fields of the record
getChannelStatusQuery(w, c) ==
    LET channel == getChannelStatus(w, w.calls[c].id)
    IN IF channel = NoChannel
       THEN Return(w, c, "null", Undefined, Undefined)
       ELSE Return(w, c, "ok", channel.status, channel.qrCode)

\* a call of isChannelConnected
isChannelConnectedQuery(w, c) ==
    Return(w, c, IF isChannelConnected(w, w.calls[c].id) THEN "true" ELSE "false",
           Undefined, Undefined)

\* a call of getAllChannels; the entry of the id of the call is what is kept of
\* the list
getAllChannelsQuery(w, c) ==
    LET id == w.calls[c].id
    IN IF \E e \in getAllChannels(w) : e.channelId = id
       THEN Return(w, c, "listed", w.channels[id].status, w.channels[id].qrCode)
       ELSE Return(w, c, "not listed", Undefined, Undefined)

\* testConnection that takes every Session as healthy
testConnectionIgnoresTransport(w, c, ws) ==
    IF getSocket(w, w.calls[c].id) = NoHandle
    THEN Return(w, c, "unhealthy", "no socket", Undefined)
    ELSE Return(w, c, "healthy", "ok", Undefined)

\* testConnection, lines 387-402: outcome is healthy, status the reason
testConnection(w, c, ws) ==
    IF getSocket(w, w.calls[c].id) = NoHandle
    THEN Return(w, c, "unhealthy", "no socket", Undefined)
    ELSE IF ws = NoWs \/ ws # WsOpen
         THEN Return(w, c, "unhealthy", "not open", Undefined)
         ELSE Return(w, c, "healthy", "ok", Undefined)

\* ----------------------------------------------------------------- state
Init ==
    /\ channels = [id \in Ids |-> NoChannel]
    /\ sessions = [id \in Ids |-> NoHandle]
    /\ qrPromises = [id \in Ids |-> NoSlot]
    /\ connectingChannels = {}
    /\ handles = <<>>
    /\ timers = [id \in Ids |-> <<>>]
    /\ encodes = [id \in Ids |-> 0]
    /\ store \in [Ids -> {"none", "auth"}]
    /\ calls = <<>>

Each(n) == [id \in Ids |-> n]

\* one client, one channel id
InitOne ==
    /\ Init
    /\ store["beta"] = "none"
    /\ limits = [ids |-> {"acme"}, calls |-> MaxCalls, handles |-> MaxHandles,
                 timers |-> MaxTimers, encodes |-> Each(MaxEncodes), own |-> Each(MaxCalls), first |-> Ids]

\* one channel id, one call and one handle more: three calls can overlap
InitOverlap ==
    /\ Init
    /\ store["beta"] = "none"
    /\ limits = [ids |-> {"acme"}, calls |-> MaxCalls + 1, handles |-> MaxHandles + 1,
                 timers |-> MaxTimers, encodes |-> Each(MaxEncodes),
                 own |-> Each(MaxCalls + 1), first |-> Ids]

NextSlot == Len(calls) + 1
Started(op, id, forceNew) == [World EXCEPT !.calls = Append(@, NewCall(op, id, forceNew))]
CallsOf(id) == Cardinality({c \in 1..Len(calls) : calls[c].id = id})
CanCall(id) ==
    /\ Len(calls) < limits.calls
    /\ CallsOf(id) < limits.own[id]
    /\ calls = <<>> => id \in limits.first
At(c, pc) == c \in 1..Len(calls) /\ calls[c].pc = pc

\* ------------------------------------------------------- calls of the API
CallCreate(id, emit) ==
    /\ CanCall(id)
    /\ EndFits(World, sessions[id], emit)
    /\ Becomes(createChannel(Started("create", id, TRUE), NextSlot, emit))

\* POST /channels, channels.routes.js lines 23-33: 409 without calling createChannel
HttpPostChannels(id, emit) ==
    /\ CanCall(id)
    /\ EndFits(World, sessions[id], emit)
    /\ IF getChannelStatus(World, id) # NoChannel
       THEN Becomes(Return(Started("POST /channels", id, FALSE), NextSlot,
                           "409 CHANNEL_ALREADY_EXISTS", Undefined, Undefined))
       ELSE Becomes(createChannel(Started("create", id, TRUE), NextSlot, emit))

CallRegenerate(id, emit) ==
    /\ CanCall(id)
    /\ EndFits(World, sessions[id], emit)
    /\ Becomes(regenerateQRCode(Started("regenerate", id, TRUE), NextSlot, emit))

CallRestore(id, emit) ==
    /\ CanCall(id)
    /\ EndFits(World, sessions[id], emit)
    /\ Becomes(restoreSession(Started("restore", id, FALSE), NextSlot, emit))

CallClose(id) ==
    /\ CanCall(id)
    /\ Becomes(closeChannel(Started("close", id, FALSE), NextSlot))

\* ------------------------------------------------- resumptions of a call
\* await existingSession.socket.end() returned, or threw into the catch of line 118
InitEndReturns(c, threw) ==
    /\ At(c, "init_end")
    /\ IF threw THEN Becomes(initRetired(World, c))
       ELSE Becomes([World EXCEPT !.calls[c].pc = "init_settle"])

\* the 1000 ms of line 117 are over
InitSettled(c) ==
    /\ At(c, "init_settle")
    /\ Becomes(initRetired(World, c))

\* the 500 ms of line 131 are over
InitAuthCleared(c) ==
    /\ At(c, "init_rm")
    /\ Becomes([World EXCEPT !.calls[c].pc = "init_load"])

\* useMultiFileAuthState (line 135) resolved (ok) or threw
InitLoaded(c, ok) ==
    /\ At(c, "init_load")
    /\ Becomes(initAuthLoaded(World, c, ok))

\* fetchLatestBaileysVersion (line 141) resolved and makeWASocket returned (ok),
\* or one of them threw
InitVersioned(c, ok) ==
    /\ At(c, "init_version")
    /\ ok => Len(handles) < limits.handles
    /\ Becomes(initOpened(World, c, ok))

\* await session.socket.end() of regenerateQRCode returned or threw (both are caught)
RegenEndReturns(c) ==
    /\ At(c, "regen_end")
    /\ Becomes([World EXCEPT !.sessions[calls[c].id] = NoHandle, !.calls[c].pc = "regen_settle"])

\* the 1000 ms of line 370 are over
RegenSettled(c, emit) ==
    /\ At(c, "regen_settle")
    /\ EndFits(World, sessions[calls[c].id], emit)
    /\ Becomes(initializeSession(World, c, emit))

LogoutReturns(c, ok) ==
    /\ At(c, "logout")
    /\ Becomes(closeLoggedOutOf(World, c, ok))

\* the 15 s timer of line 79 rejects the race
CreateTimeout(c) ==
    /\ At(c, "wait_qr")
    /\ Becomes(createAfterWait(World, c))

\* ------------------------------------------------------ the environment
\* a live socket emits {connection}; a socket that emitted 'close' is closed
ProviderUpdate(h, connection, statusCode) ==
    /\ h \in 1..Len(handles)
    /\ handles[h].live
    /\ handles[h].id \in limits.ids
    /\ connection = "close" /\ statusCode # "loggedOut" => TimerFits(World, handles[h].id)
    /\ LET w == IF connection = "close" THEN [World EXCEPT !.handles[h].live = FALSE]
                ELSE World
       IN Becomes(handleConnectionUpdate(w, handles[h].id, connection, statusCode))

\* a live socket emits {qr}: handleConnectionUpdate awaits handleQRCode, which
\* awaits QRCode.toDataURL
ProviderQr(h) ==
    /\ h \in 1..Len(handles)
    /\ handles[h].live
    /\ encodes[handles[h].id] < limits.encodes[handles[h].id]
    /\ Becomes([World EXCEPT !.encodes[handles[h].id] = @ + 1])

\* QRCode.toDataURL resolved (ok) or threw
QrEncoded(id, ok) ==
    /\ encodes[id] > 0
    /\ Becomes(handleQRCode([World EXCEPT !.encodes[id] = @ - 1], id, ok))

\* the setTimeout callback of lines 224-227
TimerFires(id, k) ==
    /\ CanCall(id)
    /\ k \in 1..Len(timers[id])
    /\ Becomes(initializeSession(
           [Started("timer", id, FALSE) EXCEPT !.timers[id] = RemoveAt(@, k),
                                               !.sessions[id] = NoHandle],
           NextSlot, FALSE))

\* the inputs of each action: the client's id, the call that resumes, the handle
\* that emits, and the outcome the environment gives
DoCallCreate == \E id \in limits.ids, emit \in BOOLEAN : CallCreate(id, emit)
DoHttpPostChannels == \E id \in limits.ids, emit \in BOOLEAN : HttpPostChannels(id, emit)
DoCallRegenerate == \E id \in limits.ids, emit \in BOOLEAN : CallRegenerate(id, emit)
DoCallRestore == \E id \in limits.ids, emit \in BOOLEAN : CallRestore(id, emit)
DoCallClose == \E id \in limits.ids : CallClose(id)
DoInitEndReturns == \E c \in 1..Len(calls), threw \in BOOLEAN : InitEndReturns(c, threw)
DoInitSettled == \E c \in 1..Len(calls) : InitSettled(c)
DoInitAuthCleared == \E c \in 1..Len(calls) : InitAuthCleared(c)
DoInitLoaded == \E c \in 1..Len(calls), ok \in BOOLEAN : InitLoaded(c, ok)
DoInitVersioned == \E c \in 1..Len(calls), ok \in BOOLEAN : InitVersioned(c, ok)
DoRegenEndReturns == \E c \in 1..Len(calls) : RegenEndReturns(c)
DoRegenSettled == \E c \in 1..Len(calls), emit \in BOOLEAN : RegenSettled(c, emit)
DoLogoutReturns == \E c \in 1..Len(calls), ok \in BOOLEAN : LogoutReturns(c, ok)
DoCreateTimeout == \E c \in 1..Len(calls) : CreateTimeout(c)
DoProviderState ==
    \E h \in 1..Len(handles), connection \in {"connecting", "open"} :
        ProviderUpdate(h, connection, Undefined)
DoProviderClose ==
    \E h \in 1..Len(handles), statusCode \in {"loggedOut", "other"} :
        ProviderUpdate(h, "close", statusCode)
DoProviderQr == \E h \in 1..Len(handles) : ProviderQr(h)
DoQrEncoded == \E id \in limits.ids, ok \in BOOLEAN : QrEncoded(id, ok)
DoTimerFires == \E id \in limits.ids, k \in 1..limits.timers : TimerFires(id, k)

Next ==
    \/ DoCallCreate
    \/ DoHttpPostChannels
    \/ DoCallRegenerate
    \/ DoCallRestore
    \/ DoCallClose
    \/ DoInitEndReturns
    \/ DoInitSettled
    \/ DoInitAuthCleared
    \/ DoInitLoaded
    \/ DoInitVersioned
    \/ DoRegenEndReturns
    \/ DoRegenSettled
    \/ DoLogoutReturns
    \/ DoCreateTimeout
    \/ DoProviderState
    \/ DoProviderClose
    \/ DoProviderQr
    \/ DoQrEncoded
    \/ DoTimerFires

Spec == InitOne /\ [][Next]_vars
SpecOverlap == InitOverlap /\ [][Next]_vars

\* two channel ids share the manager.  The busy one is called up to MaxCalls
\* times (its second call can be a fired timer, a close, a regenerate or a
\* restore); the other one is called once, first, and starts with no directory,
\* so that every call, resumption, event and timer of the busy id interleaves
\* with the steps of the other id's call and finds what that call has left: a
\* record, a Session, a wait entry, a guard entry
InitTwoOf(busy) ==
    /\ Init
    /\ \A id \in Ids \ {busy} : store[id] = "none"
    /\ limits = [ids |-> Ids, calls |-> MaxCalls + OtherCalls,
                 handles |-> MaxHandles + OtherCalls, timers |-> MaxTimers,
                 encodes |-> [id \in Ids |-> IF id = busy THEN MaxEncodes ELSE OtherEncodes],
                 own |-> [id \in Ids |-> IF id = busy THEN MaxCalls ELSE OtherCalls],
                 first |-> Ids \ {busy}]

InitTwo == InitTwoOf("acme")
InitTwoBeta == InitTwoOf("beta")

SpecTwoBeta == InitTwoBeta /\ [][Next]_vars
SpecTwo == InitTwo /\ [][Next]_vars

\* ------------------------------------------------- the queries as calls
QueryStatus(id) ==
    /\ CanCall(id)
    /\ Becomes(getChannelStatusQuery(Started("getChannelStatus", id, FALSE), NextSlot))

QueryConnected(id) ==
    /\ CanCall(id)
    /\ Becomes(isChannelConnectedQuery(Started("isChannelConnected", id, FALSE), NextSlot))

QueryAll(id) ==
    /\ CanCall(id)
    /\ Becomes(getAllChannelsQuery(Started("getAllChannels", id, FALSE), NextSlot))

TestConnection(id, ws) ==
    /\ CanCall(id)
    /\ ws \in WsStates(World, sessions[id])
    /\ Becomes(testConnection(Started("testConnection", id, FALSE), NextSlot, ws))

DoQueryStatus == \E id \in limits.ids : QueryStatus(id)
DoQueryConnected == \E id \in limits.ids : QueryConnected(id)
DoQueryAll == \E id \in limits.ids : QueryAll(id)
DoTestConnection == \E id \in limits.ids, ws \in {NoWs} \cup ReadyStates : TestConnection(id, ws)

NextQuery ==
    \/ Next
    \/ DoQueryStatus
    \/ DoQueryConnected
    \/ DoQueryAll
    \/ DoTestConnection

SpecQuery == InitOne /\ [][NextQuery]_vars

\* ---------------------------------------------------- the reconnect path
\* one channel is created or restored and then left to the provider and to the
\* reconnect timers: enough handles for the attempt count to reach its limit
InitBackoff ==
    /\ Init
    /\ store["beta"] = "none"
    /\ limits = [ids |-> {"acme"}, calls |-> MaxReconnectAttempts + 2,
                 handles |-> MaxReconnectAttempts + 1,
                 timers |-> MaxTimers, encodes |-> Each(MaxEncodes),
                 own |-> Each(MaxReconnectAttempts + 2), first |-> Ids]

FirstCreate == calls = <<>> /\ \E id \in limits.ids : CallCreate(id, FALSE)
FirstRestore == calls = <<>> /\ \E id \in limits.ids : CallRestore(id, FALSE)

NextBackoff ==
    \/ FirstCreate
    \/ FirstRestore
    \/ DoInitAuthCleared
    \/ DoInitLoaded
    \/ DoInitVersioned
    \/ DoCreateTimeout
    \/ DoProviderState
    \/ DoProviderClose
    \/ DoProviderQr
    \/ DoQrEncoded
    \/ DoTimerFires

SpecBackoff == InitBackoff /\ [][NextBackoff]_vars

\* ------------------------------------------------------- sending a text
\* whatsapp.service.js sendTextMessage, lines 14-30, up to its first await: user
\* is whether socket.user is set, wait whether applyMessageDelay has to wait
sendTextMessage(w, c, user, wait) ==
    LET id == w.calls[c].id
        socket == getSocket(w, id)
    IN IF ~isChannelConnected(w, id)
       THEN Return(w, c, "CHANNEL_NOT_CONNECTED", Undefined, Undefined)
       ELSE IF socket = NoHandle \/ ~user
            THEN Return(w, c, "CHANNEL_NOT_CONNECTED", Undefined, Undefined)
            ELSE [w EXCEPT !.calls[c].socket = socket,
                           !.calls[c].pc = IF wait THEN "send_delay" ELSE "send_verify"]

\* lines 36-47: socket.onWhatsApp answered (exists, absent) or threw ('Connection
\* Closed' is mapped to CHANNEL_NOT_CONNECTED at line 73, anything else is
\* rethrown); with exists the text is handed to socket.sendMessage
sendVerified(w, c, r) ==
    CASE r = "exists" -> [w EXCEPT !.calls[c].pc = "send_message"]
      [] r = "absent" -> Return(w, c, "INVALID_WHATSAPP_NUMBER", Undefined, Undefined)
      [] r = "closed" -> Return(w, c, "CHANNEL_NOT_CONNECTED", Undefined, Undefined)
      [] OTHER -> Return(w, c, "SendError", Undefined, Undefined)

\* lines 47-62 and 69-77: socket.sendMessage resolved or threw
sendMessageReturned(w, c, r) ==
    CASE r = "ok" -> Return(w, c, "sent", Undefined, Undefined)
      [] r = "closed" -> Return(w, c, "CHANNEL_NOT_CONNECTED", Undefined, Undefined)
      [] OTHER -> Return(w, c, "SendError", Undefined, Undefined)

\* what a call on the socket can give: a socket that has closed answers nothing
SocketAnswers(w, h, r) == r \in {"exists", "absent", "ok"} => w.handles[h].live

SendText(id, user, wait) ==
    /\ CanCall(id)
    /\ Becomes(sendTextMessage(Started("sendText", id, FALSE), NextSlot, user, wait))

\* POST /messages/text, messages.routes.js lines 33-50: 404 and 400 without
\* calling the service
HttpPostText(id, user, wait) ==
    /\ CanCall(id)
    /\ IF getChannelStatus(World, id) = NoChannel
       THEN Becomes(Return(Started("POST /messages/text", id, FALSE), NextSlot,
                           "404 CHANNEL_NOT_FOUND", Undefined, Undefined))
       ELSE IF ~isChannelConnected(World, id)
            THEN Becomes(Return(Started("POST /messages/text", id, FALSE), NextSlot,
                                "400 CHANNEL_NOT_CONNECTED", Undefined, Undefined))
            ELSE Becomes(sendTextMessage(Started("sendText", id, FALSE), NextSlot, user, wait))

\* the wait of applyMessageDelay is over
SendDelayOver(c) ==
    /\ At(c, "send_delay")
    /\ Becomes([World EXCEPT !.calls[c].pc = "send_verify"])

SendVerified(c, r) ==
    /\ At(c, "send_verify")
    /\ SocketAnswers(World, calls[c].socket, r)
    /\ Becomes(sendVerified(World, c, r))

SendMessageReturned(c, r) ==
    /\ At(c, "send_message")
    /\ SocketAnswers(World, calls[c].socket, r)
    /\ Becomes(sendMessageReturned(World, c, r))

DoSendText == \E id \in limits.ids, user \in BOOLEAN, wait \in BOOLEAN : SendText(id, user, wait)
DoHttpPostText ==
    \E id \in limits.ids, user \in BOOLEAN, wait \in BOOLEAN : HttpPostText(id, user, wait)
DoSendDelayOver == \E c \in 1..Len(calls) : SendDelayOver(c)
DoSendVerified ==
    \E c \in 1..Len(calls), r \in {"exists", "absent", "closed", "throws"} : SendVerified(c, r)
DoSendMessageReturned ==
    \E c \in 1..Len(calls), r \in {"ok", "closed", "throws"} : SendMessageReturned(c, r)

NextSend ==
    \/ Next
    \/ DoSendText
    \/ DoHttpPostText
    \/ DoSendDelayOver
    \/ DoSendVerified
    \/ DoSendMessageReturned

SpecSend == InitOverlap /\ [][NextSend]_vars

\* ------------------------------------------------------------- the claims
\* call c ends in this step: closeChannel, createChannel, ... returned or threw
Ends(c, op) ==
    /\ c \in 1..Len(calls')
    /\ calls'[c].op = op
    /\ calls'[c].pc = "done"
    /\ (c > Len(calls) \/ calls[c].pc # "done")

HasSession(id) == sessions[id] # NoHandle
HasChannel(id) == channels[id] # NoChannel

\* C1: when closeChannel(id) returns, neither a Session nor a Channel record exists
\* for the id, whether logout() succeeded, threw or there was no Session.
C1_CloseRemovesBoth ==
    [][\A c \in 1..Len(calls') :
          Ends(c, "close") => (sessions'[calls'[c].id] = NoHandle
                               /\ channels'[calls'[c].id] = NoChannel)]_vars

\* C2: a Session never exists without a Channel record.
C2_SessionHasChannel == \A id \in Ids : HasSession(id) => HasChannel(id)

\* every socket that is still open is the Session installed for its id
OnlyInstalledLive == \A h \in 1..Len(handles) : handles[h].live => sessions[handles[h].id] = h

\* C3: at most one live handle per channel id: a handle that is not the installed
\* Session was ended before the next one was installed, and no handle leaves the
\* Session store while still live.
C3_OneLiveHandle == OnlyInstalledLive

InitPcs == {"init_end", "init_settle", "init_rm", "init_load", "init_version"}
LiveHandlesOf(hs, id) == {h \in 1..Len(hs) : hs[h].id = id /\ hs[h].live}
LiveHandles(id) == LiveHandlesOf(handles, id)
ReturnedOk(c, ops) == calls[c].op \in ops /\ calls[c].pc = "done" /\ calls[c].result.outcome = "ok"

\* C4: once two create/regenerate calls on the same id have both returned, one
\* live Session is left.  Stated for runs in which nothing but create and
\* regenerate is called, and for the part of the claim that no provider event can
\* excuse: no open handle exists for the id besides the installed Session.
C4_TwoCallsOneSession ==
    [][\A c \in 1..Len(calls'), d \in 1..Len(calls') :
          (/\ c # d
           /\ calls'[c].id = calls'[d].id
           /\ (Ends(c, "create") \/ Ends(c, "regenerate"))
           /\ calls'[c].result.outcome = "ok"
           /\ ReturnedOk(d, {"create", "regenerate"})'
           /\ \A e \in 1..Len(calls') : calls'[e].op \in {"create", "regenerate"})
          => LiveHandlesOf(handles', calls'[c].id) \subseteq {sessions'[calls'[c].id]}]_vars

\* C5: the start guard is a mutual exclusion: at no time are two initializeSession
\* calls for the same id both past the guard.
C5_GuardExcludes ==
    \A c \in 1..Len(calls), d \in 1..Len(calls) :
        (c # d /\ calls[c].pc \in InitPcs /\ calls[d].pc \in InitPcs) => calls[c].id # calls[d].id

\* a call of the API (not a fired timer) for the id is running
ApiCallRunning(id) ==
    \E c \in 1..Len(calls) : calls[c].id = id /\ calls[c].op # "timer" /\ calls[c].pc # "done"
CloseReturned(id) == \E c \in 1..Len(calls) : calls[c].id = id /\ ReturnedOk(c, {"close"})
ApiCallStarts == Len(calls') > Len(calls) /\ calls'[Len(calls')].op # "timer"

\* C6: after closeChannel(id) has returned, and until the API is called again, no
\* Channel record and no Session of the id appears: neither a pending reconnect
\* timer nor a late event of the closed handle recreates them.
C6_ClosedStaysClosed ==
    [][\A id \in Ids :
          (/\ CloseReturned(id)
           /\ ~HasChannel(id) /\ ~HasSession(id)
           /\ ~ApiCallRunning(id)
           /\ ~ApiCallStarts)
          => (channels'[id] = NoChannel /\ sessions'[id] = NoHandle)]_vars

CreatedRecord == [status |-> "CREATED", qrCode |-> Null, reconnectAttempts |-> NoAttempts]
Unchanged(w) ==
    /\ w.channels = channels /\ w.sessions = sessions /\ w.qrPromises = qrPromises
    /\ w.connectingChannels = connectingChannels /\ w.handles = handles
    /\ w.timers = timers /\ w.store = store /\ w.encodes = encodes

\* C7: createChannel(id) fails with AlreadyExists whenever a Channel record of the
\* id exists, and otherwise registers the record with status CREATED before it
\* starts the attempt (only the close of a socket the attempt retires changes the
\* status in the same step); POST /channels answers a duplicate id with 409
\* CHANNEL_ALREADY_EXISTS and does not call createChannel.
C7_CreateAlreadyExists ==
    [][\A id \in Ids, emit \in BOOLEAN :
          /\ CallCreate(id, emit) =>
                IF HasChannel(id)
                THEN /\ calls'[NextSlot].result.outcome = "AlreadyExists"
                     /\ channels' = channels /\ sessions' = sessions /\ handles' = handles
                ELSE /\ calls'[NextSlot].result.outcome # "AlreadyExists"
                     /\ channels'[id] # NoChannel
                     /\ channels'[id].qrCode = Null
                     /\ IF HasSession(id)
                        THEN channels'[id].status \in {"CREATED", "RECONNECTING"}
                        ELSE channels'[id] = CreatedRecord
          /\ (HttpPostChannels(id, emit) /\ HasChannel(id)) =>
                /\ calls'[NextSlot].op = "POST /channels"
                /\ calls'[NextSlot].result.outcome = "409 CHANNEL_ALREADY_EXISTS"
                /\ Unchanged(World')
          /\ (HttpPostChannels(id, emit) /\ ~HasChannel(id)) =>
                calls'[NextSlot].op = "create"]_vars

C7_Witness ==
    \E c \in 1..Len(calls) :
        /\ calls[c].op = "create" /\ calls[c].result.outcome = "AlreadyExists"
        /\ HasChannel(calls[c].id)

\* C8: when the pairing wait of createChannel times out, createChannel does not
\* fail: it returns the status and the QR recorded at that moment.
C8_TimeoutReturns ==
    [][\A c \in 1..Len(calls) :
          CreateTimeout(c) =>
              /\ calls'[c].result.outcome = "ok"
              /\ calls'[c].result.status = StatusOf(channels[calls[c].id])
              /\ calls'[c].result.qrCode = QrCodeOf(channels[calls[c].id])]_vars

\* a createChannel call returns in this step, and it is the only call of the run:
\* the id was fresh
FreshCreateReturns(c) ==
    /\ Ends(c, "create") /\ calls'[c].result.outcome = "ok"
    /\ Len(calls') = 1

\* C9 as stated: createChannel on a fresh id returns a status in {QRCODE,
\* CONNECTED, CONNECTING}, and with QRCODE a non-empty qrCode.
C9_FreshCreateStatus ==
    [][\A c \in 1..Len(calls') :
          FreshCreateReturns(c) =>
              /\ calls'[c].result.status \in {"QRCODE", "CONNECTED", "CONNECTING"}
              /\ calls'[c].result.status = "QRCODE" => calls'[c].result.qrCode = Image]_vars

\* C9 amended: createChannel returns the status recorded for the id when it
\* returns, whichever it is (CREATED when no event came before the timeout,
\* RECONNECTING or LOGGED_OUT after a close), and with QRCODE the image.
C9_CreateReturnsRecorded ==
    [][\A c \in 1..Len(calls') :
          (Ends(c, "create") /\ calls'[c].result.outcome = "ok") =>
              /\ calls'[c].result.status \in Statuses
              /\ calls'[c].result.status = channels'[calls'[c].id].status
              /\ calls'[c].result.qrCode = channels'[calls'[c].id].qrCode
              /\ calls'[c].result.status = "QRCODE" => calls'[c].result.qrCode = Image]_vars

C9_Witness ==
    \E c \in 1..Len(calls) :
        /\ ReturnedOk(c, {"create"})
        /\ Len(calls) = 1
        /\ calls[c].result.status = "RECONNECTING"

\* C10: when the pairing code of a channel is encoded, the status becomes QRCODE
\* with the image stored, the pending wait of the id is resolved, and the
\* createChannel that waits on it returns {status: QRCODE, qrCode: image}.
C10_QrResolvesCreate ==
    [][\A id \in Ids :
          QrEncoded(id, TRUE) =>
              /\ channels'[id].status = "QRCODE"
              /\ channels'[id].qrCode = Image
              /\ \A c \in 1..Len(calls) :
                    (qrPromises[id] = c /\ calls[c].qrp = "pending") =>
                        /\ calls'[c].qrp = "resolved"
                        /\ calls[c].pc = "wait_qr" =>
                              /\ calls'[c].pc = "done"
                              /\ calls'[c].result =
                                    [outcome |-> "ok", status |-> "QRCODE", qrCode |-> Image]]_vars

C10_Witness ==
    \E c \in 1..Len(calls) :
        /\ ReturnedOk(c, {"create"})
        /\ calls[c].qrp = "resolved"
        /\ calls[c].result.status = "QRCODE" /\ calls[c].result.qrCode = Image

\* C11: when the encoding of the pairing code fails, the pending wait of the id is
\* rejected and the createChannel that waits on it raises instead of returning a
\* status.
C11_EncodeFailureRaises ==
    [][\A id \in Ids :
          QrEncoded(id, FALSE) =>
              \A c \in 1..Len(calls) :
                  (qrPromises[id] = c /\ calls[c].qrp = "pending") =>
                      /\ calls'[c].qrp = "rejected"
                      /\ calls[c].pc = "wait_qr" =>
                            /\ calls'[c].pc = "done"
                            /\ calls'[c].result.outcome # "ok"]_vars

\* the wait entry of the id belongs to a createChannel call that has not ended
WaitOwnerRunning(id) ==
    qrPromises[id] # NoSlot =>
        /\ qrPromises[id] \in 1..Len(calls)
        /\ calls[qrPromises[id]].op = "create"
        /\ calls[qrPromises[id]].id = id
        /\ calls[qrPromises[id]].pc # "done"

\* C12: a wait entry exists only while a createChannel of the id is between its
\* start and the QR, the error or the timeout: when createChannel returns or
\* throws, by any path, no wait entry of the id is left.
C12_WaitEntryRemoved ==
    [][/\ \A id \in Ids : WaitOwnerRunning(id)'
       /\ \A c \in 1..Len(calls') :
             Ends(c, "create") => qrPromises'[calls'[c].id] = NoSlot]_vars

C12_Witness ==
    \E c \in 1..Len(calls) :
        /\ calls[c].op = "create" /\ calls[c].pc = "done"
        /\ calls[c].qrp = "rejected"
        /\ qrPromises[calls[c].id] = NoSlot

\* C13: the handling of an open event leaves the channel CONNECTED with qrCode
\* null and reconnectAttempts 0, whatever the status and the count were.
C13_OpenResets ==
    [][\A h \in 1..Len(handles) :
          ProviderUpdate(h, "open", Undefined) =>
              channels'[handles[h].id] =
                  [status |-> "CONNECTED", qrCode |-> Null, reconnectAttempts |-> 0]]_vars

C13_Witness ==
    \E id \in Ids :
        /\ channels[id] = [status |-> "CONNECTED", qrCode |-> Null, reconnectAttempts |-> 0]
        /\ \E h \in 1..Len(handles) : handles[h].id = id /\ ~handles[h].live

\* C14: a close whose cause is the logout leaves the channel LOGGED_OUT, removes
\* the Session of the id, schedules no reconnect and does not count an attempt,
\* whatever the attempt count is.
C14_LogoutClose ==
    [][\A h \in 1..Len(handles) :
          ProviderUpdate(h, "close", "loggedOut") =>
              LET id == handles[h].id
              IN /\ channels'[id].status = "LOGGED_OUT"
                 /\ sessions'[id] = NoHandle
                 /\ timers' = timers
                 /\ channels'[id].reconnectAttempts = channels[id].reconnectAttempts]_vars

C14_Witness ==
    \E id \in Ids :
        /\ channels[id].status = "LOGGED_OUT"
        /\ channels[id].reconnectAttempts >= 1
        /\ sessions[id] = NoHandle

\* channel?.reconnectAttempts || 0
AttemptsOf(channel) == IF channel.reconnectAttempts > 0 THEN channel.reconnectAttempts ELSE 0

\* the sockets of the id that have closed
ClosedHandles(id) == {h \in 1..Len(handles) : handles[h].id = id /\ ~handles[h].live}

\* C15: closes with a cause other than the logout, in a row from attempt count 0
\* (as many closes so far as attempts counted): each of the first five leaves the
\* channel RECONNECTING, counts one attempt and schedules one reconnect; the sixth
\* leaves it FAILED with the count back at 0 and schedules none.
C15_SixCloses ==
    [][\A h \in 1..Len(handles) :
          ProviderUpdate(h, "close", "other") =>
              LET id == handles[h].id
                  k == Cardinality(ClosedHandles(id))
              IN AttemptsOf(channels[id]) = k =>
                    IF k < MaxReconnectAttempts
                    THEN /\ channels'[id].status = "RECONNECTING"
                         /\ channels'[id].reconnectAttempts = k + 1
                         /\ Len(timers'[id]) = Len(timers[id]) + 1
                    ELSE /\ k = MaxReconnectAttempts
                         /\ channels'[id].status = "FAILED"
                         /\ channels'[id].reconnectAttempts = 0
                         /\ timers' = timers]_vars

C15_Witness ==
    \E id \in Ids :
        /\ channels[id].status = "FAILED"
        /\ channels[id].reconnectAttempts = 0
        /\ Cardinality(ClosedHandles(id)) = MaxReconnectAttempts + 1

\* C16: the attempt count of a channel is never negative and never above 5 (a
\* record that has no count yet reads as 0); the close that would count a sixth
\* attempt leaves the channel FAILED instead.
C16_AttemptsBounded ==
    [][/\ \A id \in Ids :
             HasChannel(id)' =>
                 channels'[id].reconnectAttempts \in {NoAttempts} \cup 0..MaxReconnectAttempts
       /\ \A h \in 1..Len(handles) :
             (/\ ProviderUpdate(h, "close", "other")
              /\ channels[handles[h].id].reconnectAttempts = MaxReconnectAttempts)
             => /\ channels'[handles[h].id].status = "FAILED"
                /\ channels'[handles[h].id].reconnectAttempts < MaxReconnectAttempts]_vars

C16_Witness == \E id \in Ids : channels[id].reconnectAttempts = MaxReconnectAttempts

\* the delays of the spec for attempts 1..5, in milliseconds
BackoffTable == <<3000, 6000, 12000, 24000, 48000>>

\* C17: the reconnect scheduled for the n-th attempt in a row waits
\* min(3000 * 2^(n-1), 60000) ms: 3000, 6000, 12000, 24000, 48000 for n = 1..5;
\* no scheduled delay is above 60000.
C17_BackoffDelays ==
    [][/\ \A n \in 1..MaxReconnectAttempts : Delay(n) = BackoffTable[n]
       /\ \A h \in 1..Len(handles) :
             (ProviderUpdate(h, "close", "other") /\ SchedulesTimer(World, handles[h].id)) =>
                 timers'[handles[h].id] =
                     Append(timers[handles[h].id],
                            BackoffTable[AttemptsOf(channels[handles[h].id]) + 1])
       /\ \A id \in Ids : \A i \in 1..Len(timers'[id]) :
             /\ timers'[id][i] <= MaxDelayMs
             /\ \E n \in 1..MaxReconnectAttempts : timers'[id][i] = BackoffTable[n]]_vars

C17_Witness == \E id \in Ids : \E i \in 1..Len(timers[id]) : timers[id][i] = 48000

\* the step handles an open event of a socket of the id
OpenHandled(id) ==
    \E h \in 1..Len(handles) : handles[h].id = id /\ ProviderUpdate(h, "open", Undefined)

\* C18: the attempt count goes back to 0 only on an open event: a step in which
\* the count of a channel decreases or is cleared is the handling of an open event
\* of that channel.  The transition to FAILED, which the reconnect limit itself
\* prescribes, and the removal of the record are left aside.
C18_ResetOnlyOnOpen ==
    [][\A id \in Ids :
          (/\ HasChannel(id) /\ HasChannel(id)'
           /\ AttemptsOf(channels'[id]) < AttemptsOf(channels[id])
           /\ channels'[id].status # "FAILED")
          => OpenHandled(id)]_vars

\* C19: LOGGED_OUT and FAILED are terminal: while no call of the API runs or starts
\* for the id, no provider event and no reconnect timer changes such a status.
C19_TerminalStatus ==
    [][\A id \in Ids :
          (/\ channels[id].status \in {"LOGGED_OUT", "FAILED"}
           /\ ~ApiCallRunning(id)
           /\ ~ApiCallStarts)
          => channels'[id].status = channels[id].status]_vars

\* C20: a channel has a qrCode only while its status is QRCODE.
C20_QrOnlyInQrcode ==
    \A id \in Ids :
        (HasChannel(id) /\ channels[id].qrCode \notin {Null, Undefined})
        => channels[id].status = "QRCODE"

\* ------------------------------------------------ progress of the reconnect
\* the reconnect path with timers that fire, awaits that complete and sockets
\* that report their state; whether loading succeeds, and whether a socket
\* closes or issues a pairing code, stays with the environment
FairBackoff ==
    /\ WF_vars(DoTimerFires)
    /\ WF_vars(DoInitAuthCleared)
    /\ WF_vars(DoInitLoaded)
    /\ WF_vars(DoInitVersioned)
    /\ WF_vars(DoCreateTimeout)
    /\ WF_vars(DoQrEncoded)
    /\ WF_vars(DoProviderState)

SpecBackoffFair == SpecBackoff /\ FairBackoff

\* C21: automatic reconnection makes progress: a channel that is RECONNECTING
\* eventually leaves RECONNECTING, also when the scheduled initializeSession
\* fails or is skipped by the guard.
C21_ReconnectProgress ==
    \A id \in Ids :
        (channels[id].status = "RECONNECTING") ~> (channels[id].status # "RECONNECTING")

\* C22: regenerateQRCode fails with NotFound when the id has no Channel record,
\* at the call and at the moment it starts the new attempt (after the 1000 ms),
\* and then opens no socket and installs no Session.
C22_RegenerateNotFound ==
    [][/\ \A id \in Ids, emit \in BOOLEAN :
             (CallRegenerate(id, emit) /\ ~HasChannel(id)) =>
                 /\ calls'[NextSlot].pc = "done"
                 /\ calls'[NextSlot].result.outcome = "NotFound"
                 /\ handles' = handles /\ sessions' = sessions
       /\ \A c \in 1..Len(calls), emit \in BOOLEAN :
             (RegenSettled(c, emit) /\ ~HasChannel(calls[c].id)) =>
                 /\ calls'[c].pc = "done"
                 /\ calls'[c].result.outcome = "NotFound"
                 /\ sessions' = sessions]_vars

\* C23: a failure of socket.end() (initializeSession, regenerateQRCode) or of
\* socket.logout() (closeChannel) is caught: the call goes on past it, and
\* closeChannel never ends with an error.
C23_TransportFailureCaught ==
    [][/\ \A c \in 1..Len(calls) :
             /\ InitEndReturns(c, TRUE) => calls'[c].pc \in {"init_rm", "init_load"}
             /\ RegenEndReturns(c) => calls'[c].pc = "regen_settle"
             /\ LogoutReturns(c, FALSE) =>
                    (calls'[c].pc = "done" /\ calls'[c].result.outcome = "ok")
       /\ \A c \in 1..Len(calls') :
             Ends(c, "close") => calls'[c].result.outcome = "ok"]_vars

\* closeChannel has returned although logout() threw: the Session is still there
C23_Witness ==
    \E c \in 1..Len(calls) :
        /\ ReturnedOk(c, {"close"})
        /\ calls[c].socket # NoHandle
        /\ sessions[calls[c].id] = calls[c].socket
        /\ handles[calls[c].socket].live

\* C24: restoreSession of a channel that is CONNECTED skips all work: the Channel
\* record, the Session, the guard, the stored credentials and everything else
\* are as before, and no attempt is started.
C24_RestoreConnectedSkips ==
    [][\A id \in Ids, emit \in BOOLEAN :
          (CallRestore(id, emit) /\ channels[id].status = "CONNECTED") =>
              /\ Unchanged(World')
              /\ calls'[NextSlot].pc = "done"
              /\ calls'[NextSlot].result.outcome = "ok"]_vars

\* a run of createChannel and then restoreSession, with no close: the restore
\* returned without a status, so it took the early return of line 413
C24_Witness ==
    /\ Len(calls) = 2
    /\ calls[1].op = "create"
    /\ ReturnedOk(2, {"restore"})
    /\ calls[2].result.status = Undefined
    /\ channels[calls[2].id].status = "CONNECTED"
    /\ sessions[calls[2].id] # NoHandle

\* C25: restoreSession of a channel that is not CONNECTED fails with NotFound when
\* the directory of the id does not exist, and then registers nothing and starts
\* no attempt; otherwise it registers the status RESTORING (qrCode null) and
\* starts initializeSession with forceNew = false (only the close of a socket the
\* attempt retires changes the status in the same step).
C25_RestoreNotFound ==
    [][\A id \in Ids, emit \in BOOLEAN :
          (CallRestore(id, emit) /\ channels[id].status # "CONNECTED") =>
              IF store[id] = "none"
              THEN /\ calls'[NextSlot].pc = "done"
                   /\ calls'[NextSlot].result.outcome = "NotFound"
                   /\ Unchanged(World')
              ELSE /\ calls'[NextSlot].result.outcome # "NotFound"
                   /\ calls'[NextSlot].forceNew = FALSE
                   /\ store' = store
                   /\ channels'[id].qrCode = Null
                   /\ channels'[id].reconnectAttempts \in
                          (IF HasSession(id) THEN {NoAttempts, 0, 1} ELSE {NoAttempts})
                   /\ channels'[id].status \in
                          (IF HasSession(id) THEN {"RESTORING", "RECONNECTING"}
                           ELSE {"RESTORING"})
                   /\ (calls'[NextSlot].pc \in InitPcs
                       \/ (id \in connectingChannels /\ calls'[NextSlot].pc = "done"))]_vars

C25_Witness ==
    \E c \in 1..Len(calls) :
        /\ calls[c].op = "restore" /\ calls[c].result.outcome = "NotFound"
        /\ store[calls[c].id] = "none"
        /\ ~HasChannel(calls[c].id) /\ ~HasSession(calls[c].id)

\* C26: testConnection returns healthy exactly when a Session exists for the id
\* and the readyState of its WebSocket is OPEN; without a Session, or with a
\* transport that is not open, it returns unhealthy with a reason; it never throws.
C26_TestConnection ==
    [][\A id \in Ids, ws \in {NoWs} \cup ReadyStates :
          TestConnection(id, ws) =>
              LET r == calls'[NextSlot].result
              IN /\ calls'[NextSlot].pc = "done"
                 /\ r.outcome \in {"healthy", "unhealthy"}
                 /\ (r.outcome = "healthy") <=> (HasSession(id) /\ ws = WsOpen)
                 /\ (r.outcome = "unhealthy" /\ ~HasSession(id)) => r.status = "no socket"
                 /\ (r.outcome = "unhealthy" /\ HasSession(id)) => r.status = "not open"]_vars

C26_Witness ==
    \E c \in 1..Len(calls), d \in 1..Len(calls) :
        /\ calls[c].op = "testConnection" /\ calls[c].result.outcome = "healthy"
        /\ calls[d].op \in {"create", "restore"} /\ calls[d].id = calls[c].id

\* the step is a query of the id
QueryOf(id) ==
    \/ QueryStatus(id)
    \/ QueryConnected(id)
    \/ QueryAll(id)
    \/ \E ws \in {NoWs} \cup ReadyStates : TestConnection(id, ws)

\* C27: getChannelStatus, getAllChannels, isChannelConnected and testConnection
\* change nothing: channels, sessions, qrPromises and connectingChannels (and the
\* sockets, timers and stored credentials) are the same after the call;
\* isChannelConnected is true iff the recorded status is CONNECTED;
\* getChannelStatus returns null for an id that is not registered and the
\* recorded fields otherwise.
C27_QueriesReadOnly ==
    [][\A id \in Ids :
          /\ QueryOf(id) => (Unchanged(World') /\ calls'[NextSlot].pc = "done")
          /\ QueryConnected(id) =>
                 ((calls'[NextSlot].result.outcome = "true") <=> (channels[id].status = "CONNECTED"))
          /\ QueryStatus(id) =>
                 IF HasChannel(id)
                 THEN calls'[NextSlot].result =
                          [outcome |-> "ok", status |-> channels[id].status,
                           qrCode |-> channels[id].qrCode]
                 ELSE calls'[NextSlot].result.outcome = "null"
          /\ QueryAll(id) =>
                 ((calls'[NextSlot].result.outcome = "listed") <=> HasChannel(id))]_vars

C27_Witness ==
    \E c \in 1..Len(calls) :
        /\ calls[c].op = "isChannelConnected" /\ calls[c].result.outcome = "true"
        /\ channels[calls[c].id].status = "CONNECTED"

\* the step belongs to the id: a call of the API for it, the resumption of one of
\* its calls, an event of one of its sockets, its QR encoding or its timer
StepOf(id) ==
    \/ \E emit \in BOOLEAN :
          \/ CallCreate(id, emit)
          \/ HttpPostChannels(id, emit)
          \/ CallRegenerate(id, emit)
          \/ CallRestore(id, emit)
    \/ CallClose(id)
    \/ \E c \in 1..Len(calls) :
          /\ calls[c].id = id
          /\ \/ \E b \in BOOLEAN :
                   InitEndReturns(c, b) \/ InitLoaded(c, b) \/ InitVersioned(c, b)
                   \/ RegenSettled(c, b)
                   \/ LogoutReturns(c, b)
             \/ InitSettled(c) \/ InitAuthCleared(c) \/ RegenEndReturns(c) \/ CreateTimeout(c)
    \/ \E h \in 1..Len(handles) :
          /\ handles[h].id = id
          /\ \/ ProviderQr(h)
             \/ \E connection \in {"connecting", "open", "close"},
                   statusCode \in {Undefined, "loggedOut", "other"} :
                   ProviderUpdate(h, connection, statusCode)
    \/ \E ok \in BOOLEAN : QrEncoded(id, ok)
    \/ \E k \in 1..limits.timers : TimerFires(id, k)

\* nothing the manager keeps for the id changes in the step
SameFor(id) ==
    /\ channels'[id] = channels[id]
    /\ sessions'[id] = sessions[id]
    /\ qrPromises'[id] = qrPromises[id]
    /\ (id \in connectingChannels') <=> (id \in connectingChannels)
    /\ timers'[id] = timers[id]
    /\ encodes'[id] = encodes[id]
    /\ store'[id] = store[id]
    /\ \A h \in 1..Len(handles) : handles[h].id = id => handles'[h] = handles[h]
    /\ \A c \in 1..Len(calls) : calls[c].id = id => calls'[c] = calls[c]

\* C28: a call, a provider event or a reconnect timer of one channel id never
\* changes the Channel record, the Session, the wait entry or the guard entry of
\* another channel id: a step that is a step of one id (StepOf) leaves all the
\* manager keeps under every other id as it was (SameFor).
C28_ChannelsIndependent ==
    [][\A id \in Ids : (\A other \in Ids \ {id} : SameFor(other)) \/ ~StepOf(id)]_vars

\* the other id has a record, a live Session and the wait entry of its create,
\* which began first and still waits; the busy id's reconnect timer has fired
\* since, and its attempt has installed a socket
C28_Witness ==
    \E id \in Ids, other \in Ids, c \in 1..Len(calls) :
        /\ other # id
        /\ calls[c].op = "timer" /\ calls[c].id = id /\ calls[c].pc = "done"
        /\ HasSession(id) /\ handles[sessions[id]].live
        /\ calls[1].op = "create" /\ calls[1].id = other /\ calls[1].pc = "wait_qr"
        /\ HasChannel(other) /\ qrPromises[other] # NoSlot
        /\ HasSession(other) /\ handles[sessions[other]].live

\* C29: when the attempt starts of two create/regenerate calls of one id overlap,
\* the later call wins.  Stated for runs of a createChannel followed by a
\* regenerateQRCode and nothing else: when the second of them to return has
\* returned, the later call has opened a socket of its own, and the socket the
\* earlier call opened has been ended and is not the installed Session.
C29_LaterCallWins ==
    [][(/\ Len(calls') = 2
        /\ calls'[1].id = calls'[2].id
        /\ ReturnedOk(1, {"create"})'
        /\ ReturnedOk(2, {"regenerate"})'
        /\ (Ends(1, calls'[1].op) \/ Ends(2, calls'[2].op)))
       => /\ Len(handles') = 2
          /\ ~handles'[1].live
          /\ sessions'[calls'[2].id] # 1]_vars

\* C30: the connection events of one channel are handled one after the other: no
\* handler of an event of the id starts while the handler of an earlier event of
\* the id is still waiting for the QR encoding.
C30_EventsSequential ==
    [][\A h \in 1..Len(handles) :
          (\/ ProviderQr(h)
           \/ \E connection \in {"connecting", "open", "close"},
                 statusCode \in {Undefined, "loggedOut", "other"} :
                 ProviderUpdate(h, connection, statusCode))
          => encodes[handles[h].id] = 0]_vars

\* C31: when regenerateQRCode returns without error, the Session installed for the
\* id is a socket its own attempt (forceNew = true, started after the call began)
\* has opened in that step, and the socket installed before is ended and is not
\* the Session; the attempt loads its credentials with the stored ones
\* discarded; also when another attempt start of the id overlaps.
C31_RegenerateInstallsNew ==
    [][\A c \in 1..Len(calls') :
          /\ (Ends(c, "regenerate") /\ calls'[c].result.outcome = "ok") =>
                 LET id == calls'[c].id
                 IN /\ calls'[c].forceNew
                    /\ Len(handles') = Len(handles) + 1
                    /\ sessions'[id] = Len(handles')
                    /\ \A h \in 1..Len(handles) :
                          (handles[h].id = id /\ sessions[id] = h) => ~handles'[h].live
          /\ (c <= Len(calls) /\ calls[c].op = "regenerate" /\ InitLoaded(c, TRUE)) =>
                 store[calls[c].id] # "auth"]_vars

\* an initializeSession call of the id is past the guard and has not ended
AttemptRunning(id) == \E c \in 1..Len(calls) : calls[c].id = id /\ calls[c].pc \in InitPcs

\* C32: the guard is released on every exit of an initializeSession call that
\* acquired it: when the call returns (socket installed) or throws (loading or
\* opening failed) the id is not in connectingChannels; and the id is in
\* connectingChannels only while such a call is running, so no call that has
\* ended blocks a later one.
C32_GuardReleased ==
    [][/\ \A c \in 1..Len(calls), ok \in BOOLEAN :
             (InitLoaded(c, FALSE) \/ InitVersioned(c, ok)) =>
                 /\ calls[c].id \notin connectingChannels'
                 /\ calls'[c].pc \notin InitPcs
       /\ \A id \in Ids : (id \in connectingChannels') => AttemptRunning(id)']_vars

\* an attempt has failed, and a later attempt of the id is past the guard
C32_Witness ==
    \E c \in 1..Len(calls), d \in 1..Len(calls) :
        /\ c < d /\ calls[c].id = calls[d].id
        /\ calls[c].pc = "done" /\ calls[c].result.outcome = "InitError"
        /\ calls[d].pc \in InitPcs
        /\ calls[d].id \in connectingChannels

\* call c has removed auth_info in this step: it is at the 500 ms wait of line 131
Discards(c) ==
    /\ c \in 1..Len(calls')
    /\ calls'[c].pc = "init_rm"
    /\ (c > Len(calls) \/ calls[c].pc # "init_rm")

\* C33: the stored credentials of a channel are discarded only by an attempt with
\* forceNew = true, which only createChannel and regenerateQRCode start;
\* restoreSession and every reconnect timer start theirs with forceNew = false
\* and never remove stored credentials.
C33_DiscardOnlyForceNew ==
    [][/\ \A id \in Ids :
             (store[id] = "auth" /\ store'[id] # "auth") =>
                 \E c \in 1..Len(calls') :
                     /\ Discards(c)
                     /\ calls'[c].id = id
                     /\ calls'[c].forceNew
                     /\ calls'[c].op \in {"create", "regenerate"}
       /\ \A c \in 1..Len(calls') :
             /\ calls'[c].op \in {"restore", "timer"} => ~calls'[c].forceNew
             /\ calls'[c].op \in {"create", "regenerate"} => calls'[c].forceNew
             /\ (calls'[c].op \in {"restore", "timer"}) => ~Discards(c)]_vars

\* a reconnect timer or a restore is about to load the credentials a create or a
\* regenerate had discarded and the socket it opened has stored again
C33_Witness ==
    \E c \in 1..Len(calls), d \in 1..Len(calls) :
        /\ calls[c].op \in {"create", "regenerate"} /\ calls[c].id = calls[d].id
        /\ calls[d].op \in {"restore", "timer"}
        /\ calls[d].pc = "init_load"
        /\ store[calls[d].id] = "auth"
        /\ \E h \in 1..Len(handles) : handles[h].id = calls[d].id

\* call c hands its text to socket.sendMessage in this step
PassesMessage(c) ==
    /\ c \in 1..Len(calls) /\ calls[c].op = "sendText"
    /\ calls[c].pc = "send_verify" /\ calls'[c].pc = "send_message"

\* C34: sendTextMessage hands a message to a socket only if, at that moment, the
\* status of the channel is CONNECTED and the socket is the Session installed for
\* the channel; a send that starts on a channel that is not CONNECTED or has no
\* Session fails with CHANNEL_NOT_CONNECTED, and so does a send whose channel
\* disconnects or whose Session is replaced while it is suspended.
C34_SendOnlyConnected ==
    [][/\ \A id \in Ids, user \in BOOLEAN, wait \in BOOLEAN :
             (SendText(id, user, wait) /\ (channels[id].status # "CONNECTED" \/ ~HasSession(id)))
             => /\ calls'[NextSlot].pc = "done"
                /\ calls'[NextSlot].result.outcome = "CHANNEL_NOT_CONNECTED"
       /\ \A c \in 1..Len(calls) :
             PassesMessage(c) =>
                 /\ channels[calls[c].id].status = "CONNECTED"
                 /\ sessions[calls[c].id] = calls[c].socket]_vars

\* the step handles a connection update of socket h
UpdateOf(h) ==
    \E connection \in {"connecting", "open", "close"},
       statusCode \in {Undefined, "loggedOut", "other"} :
       ProviderUpdate(h, connection, statusCode)

\* the step ends the installed socket of the id and its close is reported before
\* end() returns (initializeSession line 116, regenerateQRCode line 363)
RetiresWithClose(id) ==
    /\ HasSession(id) /\ handles[sessions[id]].live
    /\ \/ CallCreate(id, TRUE) \/ CallRegenerate(id, TRUE) \/ CallRestore(id, TRUE)
       \/ \E c \in 1..Len(calls) : calls[c].id = id /\ RegenSettled(c, TRUE)
    /\ ~handles'[sessions[id]].live

\* C35: an event of a socket that is not the installed Session of its id changes
\* no Channel record, removes no Session and schedules no reconnect; and the
\* close a socket reports because it is being retired is not taken as a
\* disconnect: it does not make the channel RECONNECTING and schedules nothing.
C35_StaleEventsIgnored ==
    [][/\ \A h \in 1..Len(handles) :
             (UpdateOf(h) /\ sessions[handles[h].id] # h) =>
                 /\ channels' = channels
                 /\ sessions' = sessions
                 /\ timers' = timers
       /\ \A id \in Ids :
             RetiresWithClose(id) =>
                 /\ timers' = timers
                 /\ channels'[id].status = "RECONNECTING" => channels[id].status = "RECONNECTING"]_vars

\* C36: an initializeSession call that finds the id in connectingChannels is a
\* no-op: the guard, the Session store, the Channel registry and the stored
\* credentials are as before, so the entry of the attempt in progress is still
\* set when the call has returned.  Stated for the callers that do nothing else
\* in the step: regenerateQRCode after its 1000 ms, and the reconnect timer
\* (which deletes the Session itself before the call).
C36_GuardedStartNoOp ==
    [][/\ \A c \in 1..Len(calls), emit \in BOOLEAN :
             (RegenSettled(c, emit) /\ calls[c].id \in connectingChannels) =>
                 /\ connectingChannels' = connectingChannels
                 /\ sessions' = sessions
                 /\ channels' = channels
                 /\ store' = store
                 /\ handles' = handles
       /\ \A id \in Ids, k \in 1..limits.timers :
             (TimerFires(id, k) /\ id \in connectingChannels) =>
                 /\ connectingChannels' = connectingChannels
                 /\ channels' = channels
                 /\ store' = store
                 /\ handles' = handles]_vars

\* C37: a createChannel that fails with AlreadyExists changes nothing: the
\* Channel record, the Session, the guard and the wait entry of a createChannel
\* of the id that is still running are as before, and that createChannel returns
\* when the pairing code of the id is encoded.
C37_AlreadyExistsNoEffect ==
    [][/\ \A id \in Ids, emit \in BOOLEAN :
             (CallCreate(id, emit) /\ HasChannel(id)) =>
                 /\ calls'[NextSlot].result.outcome = "AlreadyExists"
                 /\ Unchanged(World')
       /\ \A id \in Ids, c \in 1..Len(calls) :
             (/\ QrEncoded(id, TRUE)
              /\ calls[c].op = "create" /\ calls[c].id = id
              /\ calls[c].pc = "wait_qr" /\ calls[c].qrp = "pending")
             => calls'[c].pc = "done"]_vars

\* C38: a channel whose status is CONNECTED has a Session installed, and the
\* socket of that Session is open (the socket whose open event set the status has
\* reported no close since).  Stated for the states in which no call of the API
\* is running for the id.
C38_ConnectedHasSession ==
    \A id \in Ids :
        (channels[id].status = "CONNECTED" /\ ~ApiCallRunning(id)) =>
            /\ HasSession(id)
            /\ handles[sessions[id]].live

\* C39: at most one reconnect is pending per channel id, and only while the
\* status of the channel is RECONNECTING; and no reconnect timer fires while a
\* socket installed after it was scheduled is the open Session of the id.
C39_OneReconnectPending ==
    [][\A id \in Ids :
          /\ Len(timers'[id]) <= 1
          /\ timers'[id] # <<>> => channels'[id].status = "RECONNECTING"
          /\ \A k \in 1..limits.timers :
                TimerFires(id, k) => (HasSession(id) => ~handles[sessions[id]].live)]_vars

\* C40: a createChannel that throws because initializeSession failed leaves no
\* Channel record, no Session and no wait entry of the id behind, so the id can be
\* created again.
C40_FailedCreateLeavesNothing ==
    [][\A c \in 1..Len(calls') :
          (Ends(c, "create") /\ calls'[c].result.outcome = "InitError") =>
              /\ channels'[calls'[c].id] = NoChannel
              /\ sessions'[calls'[c].id] = NoHandle
              /\ qrPromises'[calls'[c].id] = NoSlot]_vars
====
